---- MODULE Spec2Model ----
(***************************************************************************)
(* Model of the job-orchestration engine of main.go: the job registry      *)
(* (jobs, jobsMutex, nextJobID), handleSubmitJob, processJob with its      *)
(* per-image goroutines, and handleJobStatus.  Every statement that reads  *)
(* or writes shared memory is one step; statements on locals are folded    *)
(* into the neighbouring step.                                             *)
(***************************************************************************)
EXTENDS Integers, Sequences, FiniteSets, TLC

(* ------------------------------ bounds --------------------------------- *)
\* number of concurrent submissions in the multi-job specification
MaxJobs == 2
\* visits per submission
MaxVisits == 2
\* image urls per submission
MaxImages == 2

(* --------------------------- input universe ---------------------------- *)
StoreIDs == {"S00339218", "UNKNOWN"}
URLs == {"urlA", "urlB"}

\* pixel dimensions the network serves for a url when the fetch succeeds
ImageDims ==
  [u \in URLs |-> IF u = "urlA" THEN [Width |-> 100, Height |-> 50]
                                ELSE [Width |-> 3, Height |-> 4]]

SeqsUpTo(S, n) == UNION {[1..k -> S] : k \in 0..n}

Visits ==
  {[StoreID |-> s, ImageURLs |-> us, VisitTime |-> "t"] :
     s \in StoreIDs, us \in SeqsUpTo(URLs, MaxImages)}

RECURSIVE TotalImages(_)
TotalImages(vs) ==
  IF vs = <<>> THEN 0 ELSE Len(Head(vs).ImageURLs) + TotalImages(Tail(vs))

\* well-formed payloads whose count matches the visits
ValidRequests ==
  {[Count |-> Len(vs), Visits |-> vs] :
     vs \in {ws \in SeqsUpTo(Visits, MaxVisits) : TotalImages(ws) <= MaxImages}}

\* payloads the validation of handleSubmitJob rejects
InvalidRequests ==
  {[Count |-> 0, Visits |-> <<v>>] : v \in {w \in Visits : w.ImageURLs = <<>>}}
    \cup {[Count |-> 1, Visits |-> <<>>]}

Requests == ValidRequests \cup InvalidRequests

\* the payloads of racing submissions: the README's sample (one visit of a
\* known store with one image), an unknown store, no visit, a wrong count,
\* a zero count with a visit
SmallRequests ==
  {[Count |-> 1, Visits |-> <<[StoreID |-> "S00339218", ImageURLs |-> <<"urlA">>,
                               VisitTime |-> "t"]>>],
   [Count |-> 1, Visits |-> <<[StoreID |-> "UNKNOWN", ImageURLs |-> <<>>,
                               VisitTime |-> "t"]>>],
   [Count |-> 0, Visits |-> <<>>],
   [Count |-> 1, Visits |-> <<>>],
   [Count |-> 0, Visits |-> <<[StoreID |-> "S00339218", ImageURLs |-> <<"urlA">>,
                               VisitTime |-> "t"]>>]}

(* ----------------------------- main.go --------------------------------- *)
storeMaster ==
  [s \in {"S00339218", "S01408764"} |->
     IF s = "S00339218"
       THEN [StoreID |-> "S00339218", StoreName |-> "Store A", AreaCode |-> "NYC"]
       ELSE [StoreID |-> "S01408764", StoreName |-> "Store B", AreaCode |-> "LA"]]

ZeroStore == [StoreID |-> "", StoreName |-> "", AreaCode |-> ""]

getStore(storeID) ==
  IF storeID \in DOMAIN storeMaster
    THEN [store |-> storeMaster[storeID], ok |-> TRUE]
    ELSE [store |-> ZeroStore, ok |-> FALSE]

ZeroImageResult ==
  [StoreID |-> "", StoreName |-> "", AreaCode |-> "", ImageURL |-> "",
   Width |-> 0, Height |-> 0, Perimeter |-> 0]

\* what one call of downloadAndGetDimensions can return for a url: the
\* dimensions served, or an error (transport, status code, decode, timeout)
downloadAndGetDimensions(url) ==
  {[width |-> ImageDims[url].Width, height |-> ImageDims[url].Height, err |-> ""],
   [width |-> 0, height |-> 0, err |-> "error downloading image"]}

\* the factor applied to the width alone
PerimeterWidthOnly(width, height) == 2 * width + height

\* line 144: perimeter := 2.0 * float64(width+height), exact on pixel counts
Perimeter(width, height) == 2 * (width + height)

\* calculateImagePerimeter, given what the download returned (the sleep of
\* lines 146-147 only delays the return).  The first
\* branch (its message carries the store id) is never taken from processJob,
\* which launches units only for stores it has found.
calculateImagePerimeter(storeID, imageURL, dl) ==
  LET s == getStore(storeID) IN
  IF ~s.ok
    THEN [result |-> ZeroImageResult, err |-> "store ID does not exist"]
  ELSE IF dl.err # ""
    THEN [result |-> ZeroImageResult, err |-> dl.err]
  ELSE [result |-> [StoreID |-> s.store.StoreID,
                    StoreName |-> s.store.StoreName,
                    AreaCode |-> s.store.AreaCode,
                    ImageURL |-> imageURL,
                    Width |-> dl.width,
                    Height |-> dl.height,
                    Perimeter |-> Perimeter(dl.width, dl.height)],
        err |-> ""]

StoreError(storeID, msg) == [StoreID |-> storeID, Error |-> msg]

(* a mutex is free or held by one goroutine *)
Free == [kind |-> "none", id |-> 0]
Holder(kind, id) == [kind |-> kind, id |-> id]

\* the JobData literal of handleSubmitJob
NewJobData(jobID) ==
  [ID |-> jobID, Status |-> "ongoing", Results |-> <<>>, Errors |-> <<>>,
   CreatedAt |-> "now", CompletedAt |-> 0, mu |-> Free]

VARIABLES
  jobs,        \* the registry map: job id -> JobData
  jobsMutex,   \* holder of the registry lock
  nextJobID,   \* the id counter
  submit,      \* handleSubmitJob invocations: [pc, req, jobID]
  proc,        \* processJob goroutines, by job id: [pc, req, v, i, wg]
  units,       \* per-image goroutines, by job id, in launch order
  poll         \* the handleJobStatus invocation in flight

vars == <<jobs, jobsMutex, nextJobID, submit, proc, units, poll>>

IdlePoll ==
  [pc |-> "idle", jobID |-> 0, exists |-> FALSE, status |-> "", errors |-> <<>>]

InitWith(n, reqs) ==
  /\ jobs = <<>>
  /\ jobsMutex = Free
  /\ nextJobID = 1
  /\ submit \in [1..n -> {[pc |-> "decode", req |-> r, jobID |-> 0] : r \in reqs}]
  /\ proc = <<>>
  /\ units = <<>>
  /\ poll = IdlePoll

(* --------------------------- handleSubmitJob --------------------------- *)
\* the test of line 237 left out: only a zero count with visits is rejected
ValidPayloadZeroOnly(req) == ~(req.Count = 0 /\ Len(req.Visits) > 0)

\* a payload is accepted only with a positive count
ValidPayloadNonZero(req) ==
  /\ req.Count > 0
  /\ req.Count = Len(req.Visits)

\* lines 232 and 237: the payload passes both validation tests
ValidPayload(req) ==
  /\ ~(req.Count = 0 /\ Len(req.Visits) > 0)
  /\ req.Count = Len(req.Visits)

\* lines 228-240: decode and validate; a rejected payload ends the handler
SubmitValidate(h) ==
  /\ submit[h].pc = "decode"
  /\ submit' = [submit EXCEPT ![h].pc =
                  IF ValidPayload(submit[h].req) THEN "lock" ELSE "rejected"]
  /\ UNCHANGED <<jobs, jobsMutex, nextJobID, proc, units, poll>>

\* the critical section entered without waiting for the lock
SubmitLockNoWait(h) ==
  /\ submit[h].pc = "lock"
  /\ jobsMutex' = Holder("submit", h)
  /\ submit' = [submit EXCEPT ![h].pc = "alloc"]
  /\ UNCHANGED <<jobs, nextJobID, proc, units, poll>>

\* line 243: jobsMutex.Lock()
SubmitLock(h) ==
  /\ submit[h].pc = "lock"
  /\ jobsMutex = Free
  /\ jobsMutex' = Holder("submit", h)
  /\ submit' = [submit EXCEPT ![h].pc = "alloc"]
  /\ UNCHANGED <<jobs, nextJobID, proc, units, poll>>

\* line 244: jobID := nextJobID
SubmitAlloc(h) ==
  /\ submit[h].pc = "alloc"
  /\ submit' = [submit EXCEPT ![h].pc = "incr", ![h].jobID = nextJobID]
  /\ UNCHANGED <<jobs, jobsMutex, nextJobID, proc, units, poll>>

\* line 245: nextJobID++
SubmitIncr(h) ==
  /\ submit[h].pc = "incr"
  /\ nextJobID' = nextJobID + 1
  /\ submit' = [submit EXCEPT ![h].pc = "insert"]
  /\ UNCHANGED <<jobs, jobsMutex, proc, units, poll>>

\* lines 246-251: build the JobData and store it in the map
SubmitInsert(h) ==
  /\ submit[h].pc = "insert"
  /\ jobs' = [k \in DOMAIN jobs \cup {submit[h].jobID} |->
                IF k = submit[h].jobID THEN NewJobData(submit[h].jobID)
                                       ELSE jobs[k]]
  /\ submit' = [submit EXCEPT ![h].pc = "unlock"]
  /\ UNCHANGED <<jobsMutex, nextJobID, proc, units, poll>>

\* line 252: jobsMutex.Unlock()
SubmitUnlock(h) ==
  /\ submit[h].pc = "unlock"
  /\ jobsMutex' = Free
  /\ submit' = [submit EXCEPT ![h].pc = "go"]
  /\ UNCHANGED <<jobs, nextJobID, proc, units, poll>>

\* line 255: go processJob(job, req)
SubmitGo(h) ==
  /\ submit[h].pc = "go"
  /\ LET j == submit[h].jobID IN
       /\ proc' = [k \in DOMAIN proc \cup {j} |->
                     IF k = j
                       THEN [pc |-> "visit", req |-> submit[h].req,
                             v |-> 1, i |-> 1, wg |-> 0]
                       ELSE proc[k]]
       /\ units' = [k \in DOMAIN units \cup {j} |->
                      IF k = j THEN <<>> ELSE units[k]]
  /\ submit' = [submit EXCEPT ![h].pc = "respond"]
  /\ UNCHANGED <<jobs, jobsMutex, nextJobID, poll>>

\* lines 258-260: the job id is written to the submitter
SubmitRespond(h) ==
  /\ submit[h].pc = "respond"
  /\ submit' = [submit EXCEPT ![h].pc = "done"]
  /\ UNCHANGED <<jobs, jobsMutex, nextJobID, proc, units, poll>>

Submit(h) ==
  \/ SubmitValidate(h)
  \/ SubmitLock(h)
  \/ SubmitAlloc(h)
  \/ SubmitIncr(h)
  \/ SubmitInsert(h)
  \/ SubmitUnlock(h)
  \/ SubmitGo(h)
  \/ SubmitRespond(h)

(* ------------------------------ processJob ----------------------------- *)
SetJob(j, field, val) == [jobs EXCEPT ![j] = [@ EXCEPT ![field] = val]]

\* lines 165-169: the head of the visit loop.  No visit left: go to wg.Wait;
\* store unknown: enter the failing branch; store known: start its images.
ProcVisit(j) ==
  /\ proc[j].pc = "visit"
  /\ LET p == proc[j] IN
       proc' = [proc EXCEPT ![j] =
         IF p.v > Len(p.req.Visits)
           THEN [p EXCEPT !.pc = "wait"]
         ELSE IF ~getStore(p.req.Visits[p.v].StoreID).ok
           THEN [p EXCEPT !.pc = "unk_lock"]
         ELSE [p EXCEPT !.pc = "images", !.i = 1]]
  /\ UNCHANGED <<jobs, jobsMutex, nextJobID, submit, units, poll>>

\* lines 182-202: one turn of the image loop: wg.Add(1) and the go statement,
\* or the end of the visit's images
ProcLaunch(j) ==
  /\ proc[j].pc = "images"
  /\ LET p == proc[j]
         visit == p.req.Visits[p.v]
     IN IF p.i > Len(visit.ImageURLs)
          THEN /\ proc' = [proc EXCEPT ![j] = [p EXCEPT !.pc = "visit", !.v = p.v + 1]]
               /\ UNCHANGED units
          ELSE /\ proc' = [proc EXCEPT ![j] = [p EXCEPT !.i = p.i + 1, !.wg = p.wg + 1]]
               /\ units' = [units EXCEPT ![j] = Append(@,
                              [storeID |-> visit.StoreID,
                               imageURL |-> visit.ImageURLs[p.i],
                               pc |-> "fetch",
                               result |-> ZeroImageResult,
                               err |-> ""])]
  /\ UNCHANGED <<jobs, jobsMutex, nextJobID, submit, poll>>

\* line 170: job.mu.Lock() in the unknown-store branch
ProcUnkLock(j) ==
  /\ proc[j].pc = "unk_lock"
  /\ jobs[j].mu = Free
  /\ jobs' = SetJob(j, "mu", Holder("proc", j))
  /\ proc' = [proc EXCEPT ![j].pc = "unk_status"]
  /\ UNCHANGED <<jobsMutex, nextJobID, submit, units, poll>>

\* line 171: job.Status = "failed"
ProcUnkStatus(j) ==
  /\ proc[j].pc = "unk_status"
  /\ jobs' = SetJob(j, "Status", "failed")
  /\ proc' = [proc EXCEPT ![j].pc = "unk_append"]
  /\ UNCHANGED <<jobsMutex, nextJobID, submit, units, poll>>

\* the error carries the store id of the first visit instead of the current one
ProcUnkAppendFirstVisit(j) ==
  /\ proc[j].pc = "unk_append"
  /\ jobs' = [jobs EXCEPT ![j].Errors =
               Append(@, StoreError(proc[j].req.Visits[1].StoreID,
                                    "Store ID does not exist"))]
  /\ proc' = [proc EXCEPT ![j].pc = "unk_unlock"]
  /\ UNCHANGED <<jobsMutex, nextJobID, submit, units, poll>>

\* lines 172-175: the StoreError of the unknown store is appended
ProcUnkAppend(j) ==
  /\ proc[j].pc = "unk_append"
  /\ jobs' = SetJob(j, "Errors",
               Append(jobs[j].Errors,
                      StoreError(proc[j].req.Visits[proc[j].v].StoreID,
                                 "Store ID does not exist")))
  /\ proc' = [proc EXCEPT ![j].pc = "unk_unlock"]
  /\ UNCHANGED <<jobsMutex, nextJobID, submit, units, poll>>

\* line 176: job.mu.Unlock()
ProcUnkUnlock(j) ==
  /\ proc[j].pc = "unk_unlock"
  /\ jobs' = SetJob(j, "mu", Free)
  /\ proc' = [proc EXCEPT ![j].pc = "unk_completedAt"]
  /\ UNCHANGED <<jobsMutex, nextJobID, submit, units, poll>>

\* the return of line 178 replaced by a continue: the loop goes on
ProcUnkCompletedAtContinue(j) ==
  /\ proc[j].pc = "unk_completedAt"
  /\ jobs' = [jobs EXCEPT ![j].CompletedAt = @ + 1]
  /\ proc' = [proc EXCEPT ![j].pc = "visit", ![j].v = @ + 1]
  /\ UNCHANGED <<jobsMutex, nextJobID, submit, units, poll>>

\* lines 177-178: job.CompletedAt = time.Now(), written without the lock,
\* and return (wg.Wait is not reached).  CompletedAt counts its assignments.
ProcUnkCompletedAt(j) ==
  /\ proc[j].pc = "unk_completedAt"
  /\ jobs' = SetJob(j, "CompletedAt", jobs[j].CompletedAt + 1)
  /\ proc' = [proc EXCEPT ![j].pc = "done"]
  /\ UNCHANGED <<jobsMutex, nextJobID, submit, units, poll>>

\* line 206: wg.Wait() returns when the counter is zero
ProcWait(j) ==
  /\ proc[j].pc = "wait"
  /\ proc[j].wg = 0
  /\ proc' = [proc EXCEPT ![j].pc = "fin_lock"]
  /\ UNCHANGED <<jobs, jobsMutex, nextJobID, submit, units, poll>>

\* line 208: job.mu.Lock()
ProcFinLock(j) ==
  /\ proc[j].pc = "fin_lock"
  /\ jobs[j].mu = Free
  /\ jobs' = SetJob(j, "mu", Holder("proc", j))
  /\ proc' = [proc EXCEPT ![j].pc = "fin_status"]
  /\ UNCHANGED <<jobsMutex, nextJobID, submit, units, poll>>

\* the test of line 209 dropped: the join always ends in completed
FinalStatusUnconditional(status) == "completed"

\* lines 209-211: the status after the join
FinalStatus(status) == IF status # "failed" THEN "completed" ELSE status

ProcFinStatus(j) ==
  /\ proc[j].pc = "fin_status"
  /\ jobs' = SetJob(j, "Status", FinalStatus(jobs[j].Status))
  /\ proc' = [proc EXCEPT ![j].pc = "fin_completedAt"]
  /\ UNCHANGED <<jobsMutex, nextJobID, submit, units, poll>>

\* line 212: job.CompletedAt = time.Now()
ProcFinCompletedAt(j) ==
  /\ proc[j].pc = "fin_completedAt"
  /\ jobs' = SetJob(j, "CompletedAt", jobs[j].CompletedAt + 1)
  /\ proc' = [proc EXCEPT ![j].pc = "fin_unlock"]
  /\ UNCHANGED <<jobsMutex, nextJobID, submit, units, poll>>

\* lines 213-214: job.mu.Unlock() and return
ProcFinUnlock(j) ==
  /\ proc[j].pc = "fin_unlock"
  /\ jobs' = SetJob(j, "mu", Free)
  /\ proc' = [proc EXCEPT ![j].pc = "done"]
  /\ UNCHANGED <<jobsMutex, nextJobID, submit, units, poll>>

Proc(j) ==
  \/ ProcVisit(j)
  \/ ProcLaunch(j)
  \/ ProcUnkLock(j)
  \/ ProcUnkStatus(j)
  \/ ProcUnkAppend(j)
  \/ ProcUnkUnlock(j)
  \/ ProcUnkCompletedAt(j)
  \/ ProcWait(j)
  \/ ProcFinLock(j)
  \/ ProcFinStatus(j)
  \/ ProcFinCompletedAt(j)
  \/ ProcFinUnlock(j)

(* ----------------------- the per-image goroutine ----------------------- *)
SetUnit(j, u, rec) == [units EXCEPT ![j] = [@ EXCEPT ![u] = rec]]

\* line 187: calculateImagePerimeter returns with what the download gave
UnitFetch(j, u) ==
  /\ units[j][u].pc = "fetch"
  /\ \E dl \in downloadAndGetDimensions(units[j][u].imageURL) :
       LET r == calculateImagePerimeter(units[j][u].storeID,
                                        units[j][u].imageURL, dl)
       IN units' = SetUnit(j, u, [units[j][u] EXCEPT
                     !.pc = "lock", !.result = r.result, !.err = r.err])
  /\ UNCHANGED <<jobs, jobsMutex, nextJobID, submit, proc, poll>>

\* lines 188-191: job.mu.Lock() and the test of err
UnitLock(j, u) ==
  /\ units[j][u].pc = "lock"
  /\ jobs[j].mu = Free
  /\ jobs' = SetJob(j, "mu", Holder("unit", u))
  /\ units' = SetUnit(j, u, [units[j][u] EXCEPT
                !.pc = IF units[j][u].err # "" THEN "fail_status" ELSE "append"])
  /\ UNCHANGED <<jobsMutex, nextJobID, submit, proc, poll>>

\* the failing unit records its error without marking the job failed
UnitFailStatusSkip(j, u) ==
  /\ units[j][u].pc = "fail_status"
  /\ units' = SetUnit(j, u, [units[j][u] EXCEPT !.pc = "fail_append"])
  /\ UNCHANGED <<jobs, jobsMutex, nextJobID, submit, proc, poll>>

\* line 192: job.Status = "failed"
UnitFailStatus(j, u) ==
  /\ units[j][u].pc = "fail_status"
  /\ jobs' = SetJob(j, "Status", "failed")
  /\ units' = SetUnit(j, u, [units[j][u] EXCEPT !.pc = "fail_append"])
  /\ UNCHANGED <<jobsMutex, nextJobID, submit, proc, poll>>

\* lines 193-197: the StoreError of the image is appended
UnitFailAppend(j, u) ==
  /\ units[j][u].pc = "fail_append"
  /\ jobs' = SetJob(j, "Errors",
               Append(jobs[j].Errors,
                      StoreError(units[j][u].storeID, units[j][u].err)))
  /\ units' = SetUnit(j, u, [units[j][u] EXCEPT !.pc = "unlock"])
  /\ UNCHANGED <<jobsMutex, nextJobID, submit, proc, poll>>

\* the new result put in front of the list
UnitAppendInFront(j, u) ==
  /\ units[j][u].pc = "append"
  /\ jobs' = [jobs EXCEPT ![j].Results = <<units[j][u].result>> \o @]
  /\ units' = [units EXCEPT ![j][u].pc = "unlock"]
  /\ UNCHANGED <<jobsMutex, nextJobID, submit, proc, poll>>

\* results suppressed once a sibling has failed the job
UnitAppendUnlessFailed(j, u) ==
  /\ units[j][u].pc = "append"
  /\ jobs' = IF jobs[j].Status = "failed" THEN jobs
             ELSE [jobs EXCEPT ![j].Results = Append(@, units[j][u].result)]
  /\ units' = [units EXCEPT ![j][u].pc = "unlock"]
  /\ UNCHANGED <<jobsMutex, nextJobID, submit, proc, poll>>

\* the result goes to the most recently created job
UnitAppendOtherJob(j, u) ==
  /\ units[j][u].pc = "append"
  /\ LET k == CHOOSE k \in DOMAIN jobs : \A m \in DOMAIN jobs : m <= k
     IN jobs' = SetJob(k, "Results", Append(jobs[k].Results, units[j][u].result))
  /\ units' = SetUnit(j, u, [units[j][u] EXCEPT !.pc = "unlock"])
  /\ UNCHANGED <<jobsMutex, nextJobID, submit, proc, poll>>

\* line 200: job.Results = append(job.Results, result)
UnitAppend(j, u) ==
  /\ units[j][u].pc = "append"
  /\ jobs' = SetJob(j, "Results", Append(jobs[j].Results, units[j][u].result))
  /\ units' = SetUnit(j, u, [units[j][u] EXCEPT !.pc = "unlock"])
  /\ UNCHANGED <<jobsMutex, nextJobID, submit, proc, poll>>

\* line 189, deferred: job.mu.Unlock()
UnitUnlock(j, u) ==
  /\ units[j][u].pc = "unlock"
  /\ jobs' = SetJob(j, "mu", Free)
  /\ units' = SetUnit(j, u, [units[j][u] EXCEPT !.pc = "wg_done"])
  /\ UNCHANGED <<jobsMutex, nextJobID, submit, proc, poll>>

\* the deferred wg.Done() left out
UnitDoneNoDecrement(j, u) ==
  /\ units[j][u].pc = "wg_done"
  /\ units' = [units EXCEPT ![j][u].pc = "done"]
  /\ UNCHANGED <<jobs, jobsMutex, nextJobID, submit, proc, poll>>

\* line 185, deferred: wg.Done()
UnitDone(j, u) ==
  /\ units[j][u].pc = "wg_done"
  /\ proc' = [proc EXCEPT ![j].wg = @ - 1]
  /\ units' = SetUnit(j, u, [units[j][u] EXCEPT !.pc = "done"])
  /\ UNCHANGED <<jobs, jobsMutex, nextJobID, submit, poll>>

Unit(j, u) ==
  \/ UnitFetch(j, u)
  \/ UnitLock(j, u)
  \/ UnitFailStatus(j, u)
  \/ UnitFailAppend(j, u)
  \/ UnitAppend(j, u)
  \/ UnitUnlock(j, u)
  \/ UnitDone(j, u)

(* --------------------------- handleJobStatus --------------------------- *)
\* lines 265-284: the job id parameter is parsed and jobsMutex is locked
PollLock ==
  /\ poll.pc = "idle"
  /\ jobsMutex = Free
  /\ \E id \in 1..(Len(submit) + 1) :
       poll' = [IdlePoll EXCEPT !.pc = "lookup", !.jobID = id]
  /\ jobsMutex' = Holder("status", 0)
  /\ UNCHANGED <<jobs, nextJobID, submit, proc, units>>

\* the lookup keeps the registry lock and takes the lock of the job it found
PollLookupLockJob ==
  /\ poll.pc = "lookup"
  /\ poll.jobID \in DOMAIN jobs => jobs[poll.jobID].mu = Free
  /\ jobs' = IF poll.jobID \in DOMAIN jobs
             THEN [jobs EXCEPT ![poll.jobID].mu = Holder("status", 0)]
             ELSE jobs
  /\ poll' = [poll EXCEPT !.pc = "unlock", !.exists = (poll.jobID \in DOMAIN jobs)]
  /\ UNCHANGED <<jobsMutex, nextJobID, submit, proc, units>>

\* the lookup never finds the job
PollLookupMiss ==
  /\ poll.pc = "lookup"
  /\ poll' = [poll EXCEPT !.pc = "unlock", !.exists = FALSE]
  /\ UNCHANGED <<jobs, jobsMutex, nextJobID, submit, proc, units>>

\* line 285: job, exists := jobs[jobID]
PollLookup ==
  /\ poll.pc = "lookup"
  /\ poll' = [poll EXCEPT !.pc = "unlock", !.exists = (poll.jobID \in DOMAIN jobs)]
  /\ UNCHANGED <<jobs, jobsMutex, nextJobID, submit, proc, units>>

\* lines 286-288: jobsMutex.Unlock() and the test of exists
PollUnlock ==
  /\ poll.pc = "unlock"
  /\ jobsMutex' = Free
  /\ poll' = [poll EXCEPT !.pc = IF poll.exists THEN "found" ELSE "missing"]
  /\ UNCHANGED <<jobs, nextJobID, submit, proc, units>>

\* lines 289-292: the empty object is written with status 400
PollNotFound ==
  /\ poll.pc = "missing"
  /\ poll' = IdlePoll
  /\ UNCHANGED <<jobs, jobsMutex, nextJobID, submit, proc, units>>

\* lines 297-300: response.Status is read from job.Status, job.mu not held
PollReadStatus ==
  /\ poll.pc = "found"
  /\ poll' = [poll EXCEPT !.pc = "test", !.status = jobs[poll.jobID].Status]
  /\ UNCHANGED <<jobs, jobsMutex, nextJobID, submit, proc, units>>

\* line 302: job.Status is read a second time, job.mu not held
PollTestStatus ==
  /\ poll.pc = "test"
  /\ poll' = [poll EXCEPT !.pc =
                IF jobs[poll.jobID].Status = "failed" THEN "errors" ELSE "encode"]
  /\ UNCHANGED <<jobs, jobsMutex, nextJobID, submit, proc, units>>

\* line 303: response.Errors = job.Errors, job.mu not held
PollReadErrors ==
  /\ poll.pc = "errors"
  /\ poll' = [poll EXCEPT !.pc = "encode", !.errors = jobs[poll.jobID].Errors]
  /\ UNCHANGED <<jobs, jobsMutex, nextJobID, submit, proc, units>>

\* line 306: the response is encoded (an empty error list is omitted)
PollRespond ==
  /\ poll.pc = "encode"
  /\ poll' = IdlePoll
  /\ UNCHANGED <<jobs, jobsMutex, nextJobID, submit, proc, units>>

Poll ==
  \/ PollLock
  \/ PollLookup
  \/ PollUnlock
  \/ PollNotFound
  \/ PollReadStatus
  \/ PollTestStatus
  \/ PollReadErrors
  \/ PollRespond

(* ---------------------------- specifications --------------------------- *)
Next ==
  \/ \E h \in DOMAIN submit : Submit(h)
  \/ \E j \in DOMAIN proc : Proc(j)
  \/ \E j \in DOMAIN units : \E u \in DOMAIN units[j] : Unit(j, u)
  \/ Poll

\* several submissions racing for the registry, each with a small payload
Init == InitWith(MaxJobs, SmallRequests)

Spec == Init /\ [][Next]_vars

\* one submission, drawn from all payloads within the bounds, and no status
\* query: the steps of handleSubmitJob, processJob and its units
NextJob ==
  \/ \E h \in DOMAIN submit : Submit(h)
  \/ \E j \in DOMAIN proc : Proc(j)
  \/ \E j \in DOMAIN units : \E u \in DOMAIN units[j] : Unit(j, u)

InitJob == InitWith(1, Requests)

SpecJob == InitJob /\ [][NextJob]_vars

\* one submission and the status queries that race with its processing
SpecPoll == InitJob /\ [][Next]_vars

\* The Go scheduler runs every runnable goroutine: each handler, processor
\* and unit that can take a step eventually takes one.  Every fetch returns
\* (the http client has a 10 second timeout, line 108), so UnitFetch is a
\* step like the others.  job.mu is taken once by each unit and once by the
\* processor, so a goroutine waiting in Lock() is disabled finitely often and
\* weak fairness covers it.
Fairness ==
  /\ \A h \in 1..MaxJobs : WF_vars(h \in DOMAIN submit /\ Submit(h))
  /\ \A j \in 1..MaxJobs : WF_vars(j \in DOMAIN proc /\ Proc(j))
  /\ \A j \in 1..MaxJobs : \A u \in 1..MaxImages :
       WF_vars(j \in DOMAIN units /\ u \in DOMAIN units[j] /\ Unit(j, u))

\* the processing of one submission under fair scheduling
LiveSpec == InitJob /\ [][NextJob]_vars /\ Fairness

(* ------------------------------- claims -------------------------------- *)
Terminal(status) == status \in {"completed", "failed"}

AllKnown(req) == \A v \in DOMAIN req.Visits : getStore(req.Visits[v].StoreID).ok

\* index of the first visit whose store is unknown (Len + 1 when there is none)
FirstUnknown(req) ==
  LET bad == {v \in DOMAIN req.Visits : ~getStore(req.Visits[v].StoreID).ok}
  IN IF bad = {} THEN Len(req.Visits) + 1
     ELSE CHOOSE v \in bad : \A w \in bad : v <= w

\* the images of a sequence of visits, in submission order
RECURSIVE Flatten(_)
Flatten(vs) ==
  IF vs = <<>> THEN <<>>
  ELSE [k \in DOMAIN Head(vs).ImageURLs |->
          [storeID |-> Head(vs).StoreID, imageURL |-> Head(vs).ImageURLs[k]]]
       \o Flatten(Tail(vs))

Count(seq, P(_)) == Cardinality({k \in DOMAIN seq : P(seq[k])})

\* the unit has appended its ImageResult or its StoreError
Recorded(unit) == unit.pc \in {"unlock", "wg_done", "done"}

\* the ImageResult a successful fetch of the image must produce
ExpectedResult(storeID, imageURL) ==
  [StoreID |-> storeID,
   StoreName |-> storeMaster[storeID].StoreName,
   AreaCode |-> storeMaster[storeID].AreaCode,
   ImageURL |-> imageURL,
   Width |-> ImageDims[imageURL].Width,
   Height |-> ImageDims[imageURL].Height,
   Perimeter |-> 2 * (ImageDims[imageURL].Width + ImageDims[imageURL].Height)]

\* C1: a job's status starts as ongoing and changes value at most once, from
\* ongoing to completed or failed; a completed or failed status is never
\* changed to a different value by any step.
C1_StatusOneTransition ==
  [][/\ \A j \in DOMAIN jobs' \ DOMAIN jobs : jobs'[j].Status = "ongoing"
     /\ \A j \in DOMAIN jobs :
          /\ jobs'[j].Status \in {"ongoing", "completed", "failed"}
          /\ Terminal(jobs[j].Status) => jobs'[j].Status = jobs[j].Status]_vars

\* C1 witness: the final step of processJob has run on a job that a unit had
\* already failed, and the job is still failed.
C1_Witness ==
  \E j \in DOMAIN proc :
    /\ proc[j].pc = "done"
    /\ AllKnown(proc[j].req)
    /\ jobs[j].Status = "failed"
    /\ jobs[j].CompletedAt = 1

\* a writer of the job stands between its write of Status and its append
MidUpdate(j) ==
  /\ j \in DOMAIN proc
  /\ \/ proc[j].pc = "unk_append"
     \/ \E u \in DOMAIN units[j] : units[j][u].pc = "fail_append"

\* C2 (as claimed): once a job's status is completed or failed, no step
\* changes its status, results or errors.  The write of Status and the append
\* that follows it in the same critical section are taken as one modification.
C2_TerminalFrozen ==
  [][\A j \in DOMAIN jobs :
       (Terminal(jobs[j].Status) /\ ~MidUpdate(j)) =>
         /\ jobs'[j].Status = jobs[j].Status
         /\ jobs'[j].Results = jobs[j].Results
         /\ jobs'[j].Errors = jobs[j].Errors]_vars

\* C3 (as claimed): whenever a job's status is completed or failed, every
\* unit launched for it has recorded its outcome.  Stated at the states where
\* the job's lock is free, which are among the states the claim covers.
C3_TerminalImpliesSettled ==
  \A j \in DOMAIN units :
    (Terminal(jobs[j].Status) /\ jobs[j].mu = Free) =>
      \A u \in DOMAIN units[j] : Recorded(units[j][u])

\* C4: when every store of the submission is known and every fetch succeeded,
\* the job is never failed, and once processJob has returned it is completed
\* with no error and exactly one result per submitted image occurrence, each
\* carrying the fetched dimensions and perimeter = 2 * (width + height).
C4_AllSucceedCompleted ==
  \A j \in DOMAIN proc :
    LET req == proc[j].req
        imgs == Flatten(req.Visits)
    IN (AllKnown(req) /\ \A u \in DOMAIN units[j] : units[j][u].err = "") =>
         /\ jobs[j].Status # "failed"
         /\ jobs[j].Errors = <<>>
         /\ \A k \in DOMAIN jobs[j].Results :
              LET r == jobs[j].Results[k] IN
                /\ r.Perimeter = 2 * (r.Width + r.Height)
                /\ r = ExpectedResult(r.StoreID, r.ImageURL)
         /\ proc[j].pc = "done" =>
              /\ jobs[j].Status = "completed"
              /\ Len(jobs[j].Results) = Len(imgs)
              /\ \A s \in StoreIDs, url \in URLs :
                   Count(jobs[j].Results,
                         LAMBDA r : r.StoreID = s /\ r.ImageURL = url)
                     = Count(imgs, LAMBDA m : m.storeID = s /\ m.imageURL = url)

\* C4 witness: a completed job of two visits that submitted the same url twice
C4_Witness ==
  \E j \in DOMAIN proc :
    /\ proc[j].pc = "done"
    /\ jobs[j].Status = "completed"
    /\ Len(proc[j].req.Visits) = 2
    /\ Len(jobs[j].Results) = 2
    /\ jobs[j].Results[1] = jobs[j].Results[2]
    /\ jobs[j].Results[1].Perimeter = 300

\* C5: when every store is known and at least one fetch failed, processJob
\* returns with status failed, one error per failed image and one result per
\* succeeded image.
C5_PartialFailure ==
  \A j \in DOMAIN proc :
    LET req == proc[j].req
        imgs == Flatten(req.Visits)
        us == units[j]
    IN (/\ proc[j].pc = "done"
        /\ AllKnown(req)
        /\ \E u \in DOMAIN us : us[u].err # "") =>
         /\ jobs[j].Status = "failed"
         /\ Len(jobs[j].Errors) = Count(us, LAMBDA x : x.err # "")
         /\ Len(jobs[j].Results) = Count(us, LAMBDA x : x.err = "")
         /\ Len(jobs[j].Results) + Len(jobs[j].Errors) = Len(imgs)
         /\ \A s \in StoreIDs :
              Count(jobs[j].Errors, LAMBDA e : e.StoreID = s)
                = Count(us, LAMBDA x : x.err # "" /\ x.storeID = s)
         /\ \A e \in {jobs[j].Errors[k] : k \in DOMAIN jobs[j].Errors} :
              \E u \in DOMAIN us : e = StoreError(us[u].storeID, us[u].err)
         /\ \A s \in DOMAIN storeMaster, url \in URLs :
              Count(jobs[j].Results,
                    LAMBDA r : r = ExpectedResult(s, url))
                = Count(us, LAMBDA x : x.err = "" /\ x.storeID = s /\ x.imageURL = url)

\* C5 witness: processJob has returned from a job with one failed and one
\* succeeded image
C5_Witness ==
  \E j \in DOMAIN proc :
    /\ proc[j].pc = "done"
    /\ AllKnown(proc[j].req)
    /\ Len(jobs[j].Errors) = 1
    /\ Len(jobs[j].Results) = 1
    /\ jobs[j].Status = "failed"

\* C6: a submission with an unknown store id is never completed, ends failed,
\* and no unit is ever launched for the visit of the first unknown store or a
\* later one: the units launched are a prefix of the images of the visits
\* before it, and nothing else is recorded but the unknown-store error.
C6_UnknownStoreShortCircuit ==
  \A j \in DOMAIN proc :
    LET req == proc[j].req
        before == Flatten(SubSeq(req.Visits, 1, FirstUnknown(req) - 1))
    IN ~AllKnown(req) =>
         /\ jobs[j].Status # "completed"
         /\ proc[j].pc = "done" => jobs[j].Status = "failed"
         /\ Len(units[j]) <= Len(before)
         /\ \A u \in DOMAIN units[j] :
              /\ units[j][u].storeID = before[u].storeID
              /\ units[j][u].imageURL = before[u].imageURL
         /\ Len(jobs[j].Results) + Len(jobs[j].Errors) <= Len(before) + 1

\* C6 witness: processJob has returned at an unknown first visit, leaving the
\* image of the second visit unlaunched
C6_Witness ==
  \E j \in DOMAIN proc :
    /\ proc[j].pc = "done"
    /\ Len(proc[j].req.Visits) = 2
    /\ ~getStore(proc[j].req.Visits[1].StoreID).ok
    /\ getStore(proc[j].req.Visits[2].StoreID).ok
    /\ proc[j].req.Visits[2].ImageURLs # <<>>
    /\ units[j] = <<>>
    /\ jobs[j].Status = "failed"

\* C7: under fair scheduling every job in the registry eventually has status
\* completed or failed.
C7_EventuallyTerminal ==
  \A j \in 1..MaxJobs :
    (j \in DOMAIN jobs) ~> (j \in DOMAIN jobs /\ Terminal(jobs[j].Status))

\* C7 witness: processJob has joined two units and set the terminal status
C7_Witness ==
  \E j \in DOMAIN proc :
    /\ proc[j].pc = "fin_completedAt"
    /\ Len(units[j]) = 2
    /\ Terminal(jobs[j].Status)

\* C8: the ids taken by submissions are pairwise distinct, and whenever the
\* registry lock is free the ids handed out and the keys of the registry are
\* both exactly 1..nextJobID-1, each key mapped to the job with that ID.
C8_JobIDs ==
  /\ \A h1, h2 \in DOMAIN submit :
       (h1 # h2 /\ submit[h1].jobID # 0 /\ submit[h2].jobID # 0) =>
         submit[h1].jobID # submit[h2].jobID
  /\ jobsMutex = Free =>
       /\ DOMAIN jobs = 1..(nextJobID - 1)
       /\ \A k \in DOMAIN jobs : jobs[k].ID = k
       /\ {submit[h].jobID : h \in DOMAIN submit} \ {0} = 1..(nextJobID - 1)

\* C8 witness: two racing submissions have both inserted their jobs
C8_Witness ==
  /\ jobsMutex = Free
  /\ Cardinality(DOMAIN jobs) >= 2
  /\ \E h1, h2 \in DOMAIN submit :
       submit[h1].jobID = 1 /\ submit[h2].jobID = 2 /\ h1 > h2

\* the unit has not yet entered its critical section
InFlight(unit) == unit.pc \in {"fetch", "lock"}

\* C9 (as claimed): a status response built before the processing of the job
\* has completed carries status ongoing.  Stated for the responses built
\* while a launched unit is still fetching or waiting for the job's lock,
\* which are among the responses the claim covers.
C9_OngoingUntilSettled ==
  (/\ poll.pc = "encode"
   /\ poll.jobID \in DOMAIN units
   /\ \E u \in DOMAIN units[poll.jobID] : InFlight(units[poll.jobID][u]))
    => poll.status = "ongoing"

\* C10 (as claimed): a status response carries a non-empty error list only if
\* the status of that same response is failed.
C10_ErrorsOnlyWhenFailed ==
  (poll.pc = "encode" /\ poll.errors # <<>>) => poll.status = "failed"

\* the count of the payload differs from the number of its visits
CountMismatch(req) == req.Count # Len(req.Visits)

\* C11: a submission whose count differs from its number of visits is rejected
\* and never takes an id; the step that rejects it changes no job, counter,
\* lock, processor or unit; and every job in the registry belongs to a
\* submission whose count matched.
C11_RejectedLeavesState ==
  [][/\ \A h \in DOMAIN submit :
          CountMismatch(submit[h].req) =>
            /\ submit'[h].pc \in {"decode", "rejected"}
            /\ submit'[h].jobID = 0
            /\ submit'[h] # submit[h] =>
                 /\ submit'[h].pc = "rejected"
                 /\ UNCHANGED <<jobs, jobsMutex, nextJobID, proc, units>>
     /\ \A k \in DOMAIN jobs' \cup DOMAIN proc' :
          \E h \in DOMAIN submit :
            ~CountMismatch(submit[h].req) /\ submit'[h].jobID = k
     /\ nextJobID' - 1 <=
          Cardinality({h \in DOMAIN submit : ~CountMismatch(submit[h].req)})]_vars

\* C11 witness: a zero count with one visit has been rejected while the job
\* of the other submission is in the registry
C11_Witness ==
  \E h \in DOMAIN submit :
    /\ submit[h].pc = "rejected"
    /\ submit[h].req.Count = 0
    /\ submit[h].req.Visits # <<>>
    /\ DOMAIN jobs # {}
    /\ nextJobID = 2

\* the submission has been given its job id or is about to be (line 252 passed)
Inserted(h) == submit[h].pc \in {"unlock", "go", "respond", "done"}

\* C12: a lookup of an id no submission has taken does not find a job, and
\* that query ends in the not-found response, which carries no status and is
\* produced without changing any state; a lookup of an id whose submission
\* has inserted its job (in particular one whose submitter has the id) finds
\* the job, and that query ends in a status response.
C12_NotFound ==
  [][/\ (poll.pc = "lookup" /\ poll'.pc = "unlock") =>
          /\ (\A h \in DOMAIN submit : submit[h].jobID # poll.jobID) =>
               ~poll'.exists
          /\ (\E h \in DOMAIN submit :
                submit[h].jobID = poll.jobID /\ Inserted(h)) => poll'.exists
     /\ poll'.pc = "missing" => (~poll'.exists /\ poll'.status = "")
     /\ poll'.pc \in {"found", "test", "errors", "encode"} => poll'.exists
     /\ poll.pc = "missing" =>
          (poll' = poll \/
             (poll' = IdlePoll /\
              UNCHANGED <<jobs, jobsMutex, nextJobID, submit, proc, units>>))
     /\ poll' # poll => UNCHANGED <<jobs, nextJobID, submit, proc, units>>]_vars

\* C12 witness: a query for an id that was never handed out is about to answer
\* not-found while a submitter already holds the id of a job in the registry
C12_Witness ==
  /\ poll.pc = "missing"
  /\ poll.jobID \notin DOMAIN jobs
  /\ poll.jobID >= nextJobID
  /\ \E h \in DOMAIN submit : submit[h].pc = "done" /\ submit[h].jobID \in DOMAIN jobs

\* C13 (as claimed): every step that changes a job's status, results, errors
\* or completedAt is taken while that job's mutex is held.
C13_WritesUnderLock ==
  [][\A j \in DOMAIN jobs :
       (\/ jobs'[j].Status # jobs[j].Status
        \/ jobs'[j].Results # jobs[j].Results
        \/ jobs'[j].Errors # jobs[j].Errors
        \/ jobs'[j].CompletedAt # jobs[j].CompletedAt)
         => (jobs[j].mu # Free /\ jobs'[j].mu = jobs[j].mu)]_vars

\* every unit launched for the job has finished recording
AllRecorded(j) ==
  j \in DOMAIN units => \A u \in DOMAIN units[j] : Recorded(units[j][u])

\* C14 (as claimed): completedAt is written at most once per job, exactly once
\* when processJob has returned, and from the moment it is written every unit
\* launched for the job has finished recording its outcome.
C14_CompletedAtOnceAfterUnits ==
  \A j \in DOMAIN jobs :
    /\ jobs[j].CompletedAt <= 1
    /\ (j \in DOMAIN proc /\ proc[j].pc = "done") => jobs[j].CompletedAt = 1
    /\ jobs[j].CompletedAt >= 1 => AllRecorded(j)

IsPrefix(s, t) == Len(s) <= Len(t) /\ SubSeq(t, 1, Len(s)) = s

\* C15: in every step the results and the errors of every job are extended at
\* the end or left alone, and over all jobs at most one entry is added.
C15_AppendOnly ==
  [][/\ \A j \in DOMAIN jobs :
          /\ IsPrefix(jobs[j].Results, jobs'[j].Results)
          /\ IsPrefix(jobs[j].Errors, jobs'[j].Errors)
          /\ Len(jobs'[j].Results) + Len(jobs'[j].Errors)
               <= Len(jobs[j].Results) + Len(jobs[j].Errors) + 1
     /\ Cardinality({j \in DOMAIN jobs :
                       \/ jobs'[j].Results # jobs[j].Results
                       \/ jobs'[j].Errors # jobs[j].Errors}) <= 1
     /\ \A j \in DOMAIN jobs' \ DOMAIN jobs :
          jobs'[j].Results = <<>> /\ jobs'[j].Errors = <<>>]_vars

\* C15 witness: two different results have been appended one after the other
C15_Witness ==
  \E j \in DOMAIN jobs :
    /\ Len(jobs[j].Results) = 2
    /\ jobs[j].Results[1] # jobs[j].Results[2]

\* the StoreError processJob records for the first unknown store of a payload
UnknownStoreError(req) ==
  [StoreID |-> req.Visits[FirstUnknown(req)].StoreID,
   Error |-> "Store ID does not exist"]

\* C16: on an unknown store processJob sets failed and appends one StoreError
\* with that store id and "Store ID does not exist" without releasing the lock
\* in between, the job never holds a second such entry, and when the unknown
\* store is in the first visit the job stays at exactly that one error and no
\* result.
C16_UnknownStoreError ==
  \A j \in DOMAIN proc :
    LET req == proc[j].req
        errs == jobs[j].Errors
        unk == {k \in DOMAIN errs : errs[k].Error = "Store ID does not exist"}
    IN /\ proc[j].pc \in {"unk_status", "unk_append", "unk_unlock"} =>
            jobs[j].mu = Holder("proc", j)
       /\ proc[j].pc \in {"unk_lock", "unk_status", "unk_append"} => unk = {}
       /\ proc[j].pc = "unk_unlock" =>
            (jobs[j].Status = "failed" /\ errs[Len(errs)] = UnknownStoreError(req))
       /\ (~AllKnown(req) /\ proc[j].pc \in {"unk_unlock", "unk_completedAt", "done"}) =>
            /\ Cardinality(unk) = 1
            /\ \A k \in unk : errs[k] = UnknownStoreError(req)
            /\ jobs[j].Status = "failed"
            /\ FirstUnknown(req) = 1 =>
                 (errs = <<UnknownStoreError(req)>> /\ jobs[j].Results = <<>>)
       /\ AllKnown(req) => unk = {}

\* C16 witness: processJob has returned from a payload whose second visit has
\* the unknown store; its StoreError is the first entry and the failure of the
\* first visit's image was recorded after it
C16_Witness ==
  \E j \in DOMAIN proc :
    /\ proc[j].pc = "done"
    /\ FirstUnknown(proc[j].req) = 2
    /\ Len(jobs[j].Errors) = 2
    /\ jobs[j].Errors[1] = UnknownStoreError(proc[j].req)

\* the fields of a job that requests can observe
JobFields(j) ==
  <<jobs[j].Status, jobs[j].Results, jobs[j].Errors, jobs[j].CompletedAt>>

\* the registry lock is held by exactly the handler that is between its Lock
\* and its Unlock, and job locks only by processJob and its units
LockOwners ==
  /\ jobsMutex.kind \in {"none", "submit", "status"}
  /\ \A h \in DOMAIN submit :
       (jobsMutex = Holder("submit", h)) <=>
         (submit[h].pc \in {"alloc", "incr", "insert", "unlock"})
  /\ (jobsMutex = Holder("status", 0)) <=> (poll.pc \in {"lookup", "unlock"})
  /\ \A j \in DOMAIN jobs : jobs[j].mu.kind \in {"none", "proc", "unit"}
  /\ \A j \in DOMAIN jobs :
       /\ jobs[j].mu.kind = "proc" => (j \in DOMAIN proc /\ jobs[j].mu.id = j)
       /\ jobs[j].mu.kind = "unit" =>
            (j \in DOMAIN units /\ jobs[j].mu.id \in DOMAIN units[j])

\* whoever holds a lock can take its next step, so every lock is released
\* without waiting for another lock
HoldersCanStep ==
  /\ \A h \in DOMAIN submit : jobsMutex = Holder("submit", h) => ENABLED Submit(h)
  /\ jobsMutex = Holder("status", 0) => ENABLED Poll
  /\ \A j \in DOMAIN jobs :
       /\ jobs[j].mu.kind = "proc" => ENABLED Proc(j)
       /\ jobs[j].mu.kind = "unit" => ENABLED Unit(j, jobs[j].mu.id)

\* every handler has answered and every job and unit has returned
Quiescent ==
  /\ \A h \in DOMAIN submit : submit[h].pc \in {"done", "rejected"}
  /\ \A j \in DOMAIN proc : proc[j].pc = "done"
  /\ \A j \in DOMAIN units : \A u \in DOMAIN units[j] : units[j][u].pc = "done"

\* C17: the registry lock is held only by request handlers and job locks only
\* by processJob and its units, so nobody holds both; a step that changes a
\* field of an existing job is taken by neither a submit handler nor the status
\* handler; every lock holder can step, and some submit handler, processJob or
\* unit can step until all of them have finished (no deadlock).
C17_NoNestedLocks ==
  /\ [](LockOwners /\ HoldersCanStep /\ (Quiescent \/ ENABLED NextJob \/ jobsMutex.kind = "status"))
  /\ [][\A j \in DOMAIN jobs :
          JobFields(j)' # JobFields(j) =>
            /\ submit' = submit /\ poll' = poll /\ jobsMutex' = jobsMutex
            /\ jobs[j].mu.kind \in {"proc", "unit"} \/ jobs'[j].mu.kind \in {"proc", "unit"}
                 \/ (j \in DOMAIN proc /\ proc'[j] # proc[j])]_vars

\* C17 witness: a submit handler holds the registry lock while a unit of an
\* earlier job holds that job's lock
C17_Witness ==
  /\ jobsMutex.kind = "submit"
  /\ \E j \in DOMAIN jobs : jobs[j].mu.kind = "unit"

\* the (store, image) pairs of a payload
ImagesOf(req) ==
  UNION {{<<req.Visits[v].StoreID, req.Visits[v].ImageURLs[i]>> :
            i \in DOMAIN req.Visits[v].ImageURLs} : v \in DOMAIN req.Visits}

\* what a job holds comes from the payload it was created for
OwnOutcomesOnly(j) ==
  LET req == proc[j].req
  IN /\ \A k \in DOMAIN jobs[j].Results :
          <<jobs[j].Results[k].StoreID, jobs[j].Results[k].ImageURL>> \in ImagesOf(req)
     /\ \A k \in DOMAIN jobs[j].Errors :
          \E v \in DOMAIN req.Visits : jobs[j].Errors[k].StoreID = req.Visits[v].StoreID
     /\ Len(jobs[j].Results) + Len(jobs[j].Errors) <= TotalImages(req.Visits) + 1
     /\ Len(jobs[j].Results) <= TotalImages(req.Visits)

\* C18: a step of processJob or of a unit of one job leaves the record of
\* every other job unchanged, and at all times (so also at the end) the results
\* and errors of a job are outcomes of images and stores of its own submission.
C18_JobsIndependent ==
  /\ [](\A j \in DOMAIN proc : OwnOutcomesOnly(j))
  /\ [][\A j \in DOMAIN proc :
          (proc'[j] # proc[j] \/ units'[j] # units[j]) =>
            \A k \in DOMAIN jobs : k # j => jobs'[k] = jobs[k]]_vars

\* C18 witness: a unit of one job has just recorded its result while another
\* job, which holds nothing yet, is inside its own critical section
C18_Witness ==
  \E j \in DOMAIN units : \E k \in DOMAIN proc :
    /\ j # k
    /\ \E u \in DOMAIN units[j] : units[j][u].pc = "unlock" /\ Len(jobs[j].Results) = 1
    /\ jobs[k].mu # Free
    /\ jobs[k].Results = <<>> /\ jobs[k].Errors = <<>>

\* C19: whenever the lock of a job is free, its status is failed exactly when
\* its errors are non-empty, and a completed job has no error and one result
\* for every image of its submission.
C19_StatusMatchesErrors ==
  \A j \in DOMAIN jobs :
    jobs[j].mu = Free =>
      /\ (jobs[j].Status = "failed") <=> (jobs[j].Errors # <<>>)
      /\ jobs[j].Status = "completed" =>
           /\ j \in DOMAIN proc
           /\ jobs[j].Errors = <<>>
           /\ Len(jobs[j].Results) = TotalImages(proc[j].req.Visits)
           /\ {<<jobs[j].Results[k].StoreID, jobs[j].Results[k].ImageURL>> :
                 k \in DOMAIN jobs[j].Results} = ImagesOf(proc[j].req)

\* C19 witness: processJob has returned and the lock is free on a job of two
\* images that one image failed while the result of the other is recorded
C19_Witness ==
  \E j \in DOMAIN proc :
    /\ jobs[j].mu = Free
    /\ proc[j].pc = "done"
    /\ TotalImages(proc[j].req.Visits) = 2
    /\ jobs[j].Status = "failed"
    /\ Len(jobs[j].Errors) = 1
    /\ Len(jobs[j].Results) = 1

\* a payload that passes validation and names no image and no unknown store
NoImagePayload(req) ==
  /\ req.Count = Len(req.Visits)
  /\ \A v \in DOMAIN req.Visits :
       req.Visits[v].StoreID \in DOMAIN storeMaster /\ req.Visits[v].ImageURLs = <<>>

\* C20: a submission without images whose stores are all known (count 0 and
\* no visit included) is never rejected; its job launches no unit, is never
\* failed, and once processJob has returned it is completed with empty results
\* and errors and one write of completedAt.
C20_NoImagesCompletes ==
  \A h \in DOMAIN submit :
    NoImagePayload(submit[h].req) =>
      /\ submit[h].pc # "rejected"
      /\ submit[h].pc \in {"respond", "done"} => submit[h].jobID \in DOMAIN proc
      /\ \A j \in DOMAIN proc :
           j = submit[h].jobID =>
             /\ units[j] = <<>>
             /\ jobs[j].Results = <<>> /\ jobs[j].Errors = <<>>
             /\ jobs[j].Status \in {"ongoing", "completed"}
             /\ proc[j].pc = "done" =>
                  (jobs[j].Status = "completed" /\ jobs[j].CompletedAt = 1)

\* C20 witness: the job of two known-store visits without images is completed
C20_Witness ==
  \E h \in DOMAIN submit :
    /\ Len(submit[h].req.Visits) = 2
    /\ NoImagePayload(submit[h].req)
    /\ submit[h].pc = "done"
    /\ proc[submit[h].jobID].pc = "done"
    /\ jobs[submit[h].jobID].Status = "completed"

====
